---- MODULE Spec2Model ----
(***************************************************************************)
(* The star catalog store of Celestia (src/src/celengine/stardb.cpp):      *)
(* binary catalog load, the textual (.stc) merge with its Add / Replace /  *)
(* Modify dispositions, the pending barycenter list, and finish(), which   *)
(* builds the final sorted catalog-number index and links barycenters.     *)
(*                                                                         *)
(* Abstractions, stated once:                                              *)
(*  - catalog numbers are IndexBits wide instead of 32 bits; InvalidIndex  *)
(*    is the all-ones value and auto numbers count down from the value     *)
(*    below it, as in the program;                                         *)
(*  - a position is a natural number, its own distance from the origin     *)
(*    (the direction of the 3-vector is not modelled);                     *)
(*  - magnitudes are integers;                                             *)
(*  - the custom properties of a record are Texture and the orbit; the     *)
(*    other custom properties (Mesh, Radius, ...) take the same path as    *)
(*    Texture in the code;                                                 *)
(*  - a stream has no I/O errors (badbit): it is a finite input.           *)
(***************************************************************************)
EXTENDS Integers, Sequences, FiniteSets, TLC

(***************************************************************************)
(* Bounds of the model.                                                    *)
(***************************************************************************)
IndexBits == 3       \* width of a catalog number (32 in the program)
MaxStars == 2        \* cap on the number of entries in the store
MaxPending == 2     \* cap on the length of the pending barycenter list
MaxAuto == 1         \* cap on the number of auto-assigned catalog numbers
MaxBinRecords == 2   \* longest binary stream, in records
MaxRecords == 3      \* cap on the number of textual records read
BufferRecords == 1   \* records per read of loadBinary (BUFFER_RECORDS, 227 in the program)
MaxCrossRecords == 2 \* longest cross-index stream, in records

(***************************************************************************)
(* Values of the program.                                                  *)
(***************************************************************************)
InvalidIndex == 2^IndexBits - 1
FirstAutoCatalogNumber == InvalidIndex - 1
STARSDAT_MAGIC == "CELSTARS"
CROSSINDEX_MAGIC == "CELINDEX"
StarsDatVersion == 256
BarycenterMagnitude == 30
NoVal == -1          \* an absent optional value (std::nullopt, nullptr)
NoName == ""
\* StarDatabase::Catalog: the catalogs a cross index can be loaded for
Catalogs == {"HenryDraper", "SAO"}

\* crossIndexes[catalog] == nullptr
NoTable == [loaded |-> FALSE, freed |-> FALSE, entries |-> <<>>]

NoQuery == [op |-> "none"]

NoDetails == [cls |-> "null", shared |-> FALSE, orbit |-> FALSE, tex |-> FALSE]

\* Star::Star(): the state of a default-constructed entry
NewStar ==
    [index |-> InvalidIndex, pos |-> 0, mag |-> 4, ext |-> 0,
     details |-> NoDetails, orbitBarycenter |-> 0, orbitingStars |-> <<>>]

VARIABLES
    phase,                      \* "loading" until finish() has run, then "finished"
    unsortedStars,              \* the provisional entry list
    nStars,                     \* the entry count
    binFileCatalogNumberIndex,  \* load-time index of loadBinary: positions in unsortedStars; <<>> is nullptr
    stcFileCatalogNumberIndex,  \* load-time index of load: set of <<catalog number, position>>
    barycenters,                \* the pending barycenter list
    nextAutoCatalogNumber,
    namesDB,                    \* whether a name database is set, and its index: set of <<name, catalog number>>
    stars,                      \* the finalized array
    catalogNumberIndex,         \* the final index: positions in stars, sorted by catalog number
    stream,                     \* "closed", or "open" while load() is reading records
    nRecords,                   \* the number of textual records read so far
    assertFailed,               \* an assert of finish() did not hold
    last,                       \* what the last operation was and how it ended
    crossIndexes,               \* per catalog, the cross-index table (NoTable is nullptr)
    query                       \* the input of the last call, and what a lookup returned

vars == <<phase, unsortedStars, nStars, binFileCatalogNumberIndex,
          stcFileCatalogNumberIndex, barycenters, nextAutoCatalogNumber,
          namesDB, stars, catalogNumberIndex, stream, nRecords, assertFailed,
          last, crossIndexes, query>>

storeVars == <<unsortedStars, nStars, binFileCatalogNumberIndex,
               stcFileCatalogNumberIndex, barycenters, nextAutoCatalogNumber,
               namesDB>>

finalVars == <<stars, catalogNumberIndex, assertFailed>>

(***************************************************************************)
(* Helpers.                                                                *)
(***************************************************************************)
Min(a, b) == IF a < b THEN a ELSE b

\* the sequences of length n that list 1..n once each
Permutations1(n) ==
    {p \in [1..n -> 1..n] : \A i, j \in 1..n : i # j => p[i] # p[j]}

\* std::sort of pointers by catalog number: any order of the positions of s
\* that is non-decreasing by index (the order of equal keys is unspecified)
SortByIndex(s) ==
    {p \in Permutations1(Len(s)) :
        \A i, j \in 1..Len(s) : i < j => s[p[i]].index <= s[p[j]].index}

\* std::lower_bound over an index idx of positions in s: the first place
\* whose entry has a catalog number >= catalogNumber, Len(idx) + 1 if none
LowerBound(idx, s, catalogNumber) ==
    LET hits == {i \in 1..Len(idx) : ~(s[idx[i]].index < catalogNumber)}
    IN  IF hits = {} THEN Len(idx) + 1
        ELSE CHOOSE i \in hits : \A j \in hits : i <= j


(***************************************************************************)
(* Classification details.                                                 *)
(***************************************************************************)
SpectralClasses == {"G"}

\* StarDetails::GetStarDetails(sc): the shared record of a known class,
\* nullptr (NoDetails) for a spectral type that does not parse or unpack
GetStarDetails(sc) ==
    IF sc \in SpectralClasses
    THEN [cls |-> sc, shared |-> TRUE, orbit |-> FALSE, tex |-> FALSE]
    ELSE NoDetails

GetBarycenterDetails ==
    [cls |-> "Bary", shared |-> TRUE, orbit |-> FALSE, tex |-> FALSE]

\* StarDetails::clone(): an exclusively owned copy
Clone(d) == [d EXCEPT !.shared = FALSE]

(***************************************************************************)
(* loadBinary.                                                             *)
(***************************************************************************)
\* the records of one buffer: recs from position `at`, toRead records to
\* convert; us and n are unsortedStars and nStars so far.
\* The result is [ok, stars, n].
RECURSIVE ReadRecords(_, _, _, _, _)
ReadRecords(recs, at, toRead, us, n) ==
    IF toRead = 0 THEN [ok |-> TRUE, stars |-> us, n |-> n]
    ELSE LET rec == recs[at]
             details == GetStarDetails(rec.spectralType)
             star == [NewStar EXCEPT !.pos = rec.x,
                                     !.mag = rec.absMag \div 256,
                                     !.details = details,
                                     !.index = rec.catNo]
         IN  IF details = NoDetails
             THEN [ok |-> FALSE, stars |-> us, n |-> n]
             ELSE ReadRecords(recs, at + 1, toRead - 1, Append(us, star), n + 1)

RECURSIVE ReadBuffers(_, _, _, _, _)
ReadBuffers(file, at, nStarsRemaining, us, n) ==
    IF nStarsRemaining = 0 THEN [ok |-> TRUE, stars |-> us, n |-> n]
    ELSE LET recordsToRead == Min(BufferRecords, nStarsRemaining)
         IN  \* in.read(...).good() fails when the stream ends before the
             \* recordsToRead records are complete (the bytes of an incomplete
             \* record do not make a record)
             IF Len(file.recs) - (at - 1) < recordsToRead
             THEN [ok |-> FALSE, stars |-> us, n |-> n]
             ELSE LET r == ReadRecords(file.recs, at, recordsToRead, us, n)
                  IN  IF ~r.ok THEN r
                      ELSE ReadBuffers(file, at + recordsToRead,
                                       nStarsRemaining - recordsToRead, r.stars, r.n)

\* the header checks of loadBinary without the test of the version
HeaderOkAnyVersion(file) ==
    /\ file.header
    /\ file.magic = STARSDAT_MAGIC

\* the header checks of loadBinary
HeaderOk(file) ==
    /\ file.header
    /\ file.magic = STARSDAT_MAGIC
    /\ file.version = StarsDatVersion

BinRecords ==
    [catNo : {1, 2}, x : {2}, absMag : {512}, spectralType : {"G", "bad"}]

SeqsUpTo(S, n) == UNION {[1..k -> S] : k \in 0..n}

\* a stream: a header, the full records after it, and whether the bytes of
\* an incomplete record follow the last full record
GoodHeader(counter, recs) ==
    [header |-> TRUE, magic |-> STARSDAT_MAGIC, version |-> StarsDatVersion,
     counter |-> counter, recs |-> recs, partial |-> FALSE]

\* the binary streams offered to loadBinary: every record sequence under a
\* good header with any declared count, with and without an incomplete
\* record at the end, and one stream per header defect
BinFiles ==
    {[GoodHeader(c, recs) EXCEPT !.partial = p] :
        c \in 0..MaxBinRecords, recs \in SeqsUpTo(BinRecords, MaxBinRecords),
        p \in BOOLEAN}
    \cup {[GoodHeader(0, <<>>) EXCEPT !.header = FALSE],
          [GoodHeader(0, <<>>) EXCEPT !.magic = CROSSINDEX_MAGIC],
          [GoodHeader(0, <<>>) EXCEPT !.version = 512]}

Op(name, why) ==
    [op |-> name, why |-> why, disp |-> "-", catNo |-> InvalidIndex,
     orbit |-> FALSE, bary |-> NoVal]

LoadBinary(file) ==
    /\ phase = "loading"
    /\ stream = "closed"
    /\ Len(unsortedStars) + file.counter <= MaxStars
    /\ IF ~HeaderOk(file)
       THEN /\ last' = Op("loadBinary", "header")
            /\ UNCHANGED storeVars
       ELSE LET r == ReadBuffers(file, 1, file.counter, unsortedStars, nStars)
            IN  /\ unsortedStars' = r.stars
                /\ nStars' = r.n
                /\ IF r.ok /\ Len(r.stars) > 0
                   THEN binFileCatalogNumberIndex' \in SortByIndex(r.stars)
                   ELSE UNCHANGED binFileCatalogNumberIndex
                /\ last' = Op("loadBinary", IF r.ok THEN "" ELSE "records")
                /\ UNCHANGED <<stcFileCatalogNumberIndex, barycenters,
                               nextAutoCatalogNumber, namesDB>>
    /\ UNCHANGED <<phase, stream, nRecords, finalVars, crossIndexes>>


(***************************************************************************)
(* Lookups used while loading.                                             *)
(***************************************************************************)
\* StarDatabase::findWhileLoading: the position in unsortedStars of the entry
\* found for catalogNumber, 0 for nullptr
FindWhileLoading(catalogNumber) ==
    LET idx == binFileCatalogNumberIndex
        i == LowerBound(idx, unsortedStars, catalogNumber)
        inStc == {p \in stcFileCatalogNumberIndex : p[1] = catalogNumber}
    IN  IF idx # <<>> /\ i <= Len(idx) /\ unsortedStars[idx[i]].index = catalogNumber
        THEN idx[i]
        ELSE IF inStc # {} THEN (CHOOSE p \in inStc : TRUE)[2]
        ELSE 0

\* NameDatabase::getCatalogNumberByName: exact match in the name index
GetCatalogNumberByName(index, name) ==
    LET hit == {p \in index : p[1] = name}
    IN  IF hit = {} THEN InvalidIndex ELSE (CHOOSE p \in hit : TRUE)[2]

\* StarNameDatabase::findCatalogNumberByName for a name that is no Bayer or
\* Flamsteed designation and has no component letter: the constellation
\* block changes nothing, the name is looked up as it is and then with " A"
\* appended
NameDBFindCatalogNumberByName(index, name) ==
    LET catalogNumber == GetCatalogNumberByName(index, name)
    IN  IF catalogNumber # InvalidIndex THEN catalogNumber
        ELSE GetCatalogNumberByName(index, name \o " A")

\* parseSimpleCatalogNumber for a name written as the prefix followed by
\* the decimal number; NoVal when the name does not parse
ParseSimpleCatalogNumber(name, prefix) ==
    LET hit == {n \in 0..InvalidIndex : name = prefix \o ToString(n)}
    IN  IF hit = {} THEN NoVal ELSE CHOOSE n \in hit : TRUE

\* the chain of catalog-number parsers of findCatalogNumberByName, for the
\* prefixes "#" and "HIP "
ParseCatalogNumber(name) ==
    LET first(celestia, hipparcos) ==
            IF celestia # NoVal THEN celestia
            ELSE IF hipparcos # NoVal THEN hipparcos
            ELSE InvalidIndex
    IN  first(ParseSimpleCatalogNumber(name, "#"),
              ParseSimpleCatalogNumber(name, "HIP "))

\* StarDatabase::findCatalogNumberByName(name, false), for names of the
\* name index, "#n" and "HIP n"
FindCatalogNumberByName(name) ==
    LET after(byName) ==
            IF name = NoName THEN InvalidIndex
            ELSE IF byName # InvalidIndex THEN byName
            ELSE ParseCatalogNumber(name)
    IN  after(IF namesDB.present
              THEN NameDBFindCatalogNumberByName(namesDB.index, name)
              ELSE InvalidIndex)

\* NameDatabase::erase then NameDatabase::add of one name
NamesErase(index, catalogNumber) == {p \in index : p[2] # catalogNumber}

NamesAdd(index, catalogNumber, name) ==
    IF name = NoName THEN index
    ELSE {p \in index : p[1] # name} \cup {<<name, catalogNumber>>}

(***************************************************************************)
(* createStar and what it calls. Each operator gives the entry as the      *)
(* function leaves it, also when it fails: an entry of the store is        *)
(* changed in place.                                                       *)
(***************************************************************************)
\* astro::appToAbsMag, as a decreasing function of the distance
AppToAbsMag(appMag, distance) == appMag - distance

\* astro::equatorialToCelestialCart, of which only the length is kept
EquatorialToCelestialCart(distance) == distance

\* no field is required
RequiredNever(disposition) == FALSE

\* disposition != DataDisposition::Modify: the test under which a missing
\* spectral type, coordinate or magnitude rejects the record
Required(disposition) == disposition # "Modify"

\* parseCustomStarDetails: hasCustomDetails
HasCustomDetails(r) == r.texture \/ r.orbit

\* modifyStarDetails without the clone of shared details
ModifyStarDetailsInPlace(existingDetails, referenceDetails, hasCustomDetails) ==
    IF referenceDetails # NoDetails THEN referenceDetails ELSE existingDetails

\* modifyStarDetails, on the details record of the entry
ModifyStarDetails(existingDetails, referenceDetails, hasCustomDetails) ==
    IF existingDetails.shared
    THEN IF hasCustomDetails
         THEN Clone(IF referenceDetails = NoDetails THEN existingDetails
                    ELSE referenceDetails)
         ELSE IF referenceDetails # NoDetails THEN referenceDetails
         ELSE existingDetails
    ELSE IF referenceDetails # NoDetails
         THEN [existingDetails EXCEPT !.cls = referenceDetails.cls]
         ELSE existingDetails

\* applyOrbit without the test of the barycenter position
BarycenterMissingIgnored(barycenterPosition) == FALSE

\* the test of applyOrbit that rejects a record whose barycenter has no
\* position at merge time
BarycenterMissing(barycenterPosition) == barycenterPosition = NoVal

\* the OrbitBarycenter property as applyOrbit reads it: NoVal when the
\* record has none, else the catalog number it stands for (InvalidIndex for
\* a name that resolves to nothing)
BarycenterCatNo(r) ==
    IF r.baryName # NoName THEN FindCatalogNumberByName(r.baryName)
    ELSE IF r.baryNum # NoVal THEN r.baryNum
    ELSE NoVal

\* applyOrbit: [ok, details, barycenters, barycenterPosition]
ApplyOrbit(catalogNumber, r, details, pending) ==
    LET resolve(barycenterCatNo, barycenter) ==
            LET barycenterDefined == barycenterCatNo # NoVal
                known == barycenterDefined /\ barycenterCatNo # InvalidIndex
                barycenterPosition ==
                    IF known /\ barycenter # 0
                    THEN unsortedStars[barycenter].pos ELSE NoVal
            IN  [ok |-> ~(barycenterDefined /\ BarycenterMissing(barycenterPosition)),
                 details |-> [details EXCEPT !.orbit = TRUE],
                 barycenters |->
                     IF known
                     THEN Append(pending, [catNo |-> catalogNumber,
                                           barycenterCatNo |-> barycenterCatNo])
                     ELSE pending,
                 barycenterPosition |-> barycenterPosition]
        lookup(barycenterCatNo) ==
            resolve(barycenterCatNo,
                    IF barycenterCatNo \in {NoVal, InvalidIndex} THEN 0
                    ELSE FindWhileLoading(barycenterCatNo))
    IN  IF ~r.orbit
        THEN [ok |-> TRUE, details |-> details, barycenters |-> pending,
              barycenterPosition |-> NoVal]
        ELSE lookup(BarycenterCatNo(r))

\* applyCustomStarDetails; shared says that the details were shared where
\* assert(!details->shared()) is evaluated
ApplyCustomStarDetails(star, catalogNumber, r, pending) ==
    LET done(o) ==
            [ok |-> o.ok, why |-> IF o.ok THEN "" ELSE "UnresolvedBarycenter",
             star |-> [star EXCEPT !.details = o.details],
             barycenters |-> o.barycenters,
             barycenterPosition |-> o.barycenterPosition,
             shared |-> star.details.shared]
    IN  IF ~HasCustomDetails(r)
        THEN [ok |-> TRUE, why |-> "", star |-> star, barycenters |-> pending,
              barycenterPosition |-> NoVal, shared |-> FALSE]
        ELSE done(ApplyOrbit(catalogNumber, r,
                             [star.details EXCEPT !.tex = r.texture \/ @], pending))

\* createOrUpdateStarDetails
CreateOrUpdateStarDetails(star, disposition, catalogNumber, r, isBarycenter, pending) ==
    LET failed(why) == [ok |-> FALSE, why |-> why, star |-> star,
                        barycenters |-> pending, barycenterPosition |-> NoVal,
                        shared |-> FALSE]
        with(referenceDetails) ==
            IF ~isBarycenter /\ r.spectral # NoName /\ referenceDetails = NoDetails
            THEN failed("BadSpectralType")
            ELSE IF ~isBarycenter /\ r.spectral = NoName /\ Required(disposition)
            THEN failed("MissingField")
            ELSE ApplyCustomStarDetails(
                     IF disposition = "Modify"
                     THEN [star EXCEPT !.details =
                              ModifyStarDetails(@, referenceDetails, HasCustomDetails(r))]
                     ELSE [star EXCEPT !.details =
                              IF HasCustomDetails(r) THEN Clone(referenceDetails)
                              ELSE referenceDetails],
                     catalogNumber, r, pending)
    IN  with(IF isBarycenter THEN GetBarycenterDetails
             ELSE IF r.spectral # NoName THEN GetStarDetails(r.spectral)
             ELSE NoDetails)

\* no distance is too small to convert the apparent magnitude
NearOriginNever(distance) == FALSE

\* the distance below which the apparent magnitude cannot be converted
\* (distance < 1e-5f): of the positions of the model, the origin
NearOrigin(distance) == distance < 1

\* createStar after the position is set: the magnitude and the extinction
CreateStarMagnitude(s2, disposition, r, isBarycenter, pending) ==
    LET result(ok, why, s) == [ok |-> ok, why |-> why, star |-> s,
                               barycenters |-> pending]
        absoluteDefined == r.absMag # NoVal
        extinct(s3) ==
            IF isBarycenter \/ r.extinction = NoVal THEN s3
            ELSE [s3 EXCEPT
                    !.ext = IF s3.pos # 0 THEN r.extinction \div s3.pos ELSE @,
                    !.mag = IF absoluteDefined THEN @
                            ELSE @ - (IF s3.pos # 0 THEN r.extinction ELSE 0)]
    IN  IF isBarycenter
        THEN result(TRUE, "", [s2 EXCEPT !.mag = BarycenterMagnitude])
        ELSE IF absoluteDefined
        THEN result(TRUE, "", extinct([s2 EXCEPT !.mag = r.absMag]))
        ELSE IF r.appMag # NoVal
        THEN IF NearOrigin(s2.pos) THEN result(FALSE, "Proximity", s2)
             ELSE result(TRUE, "", extinct([s2 EXCEPT !.mag = AppToAbsMag(r.appMag, s2.pos)]))
        ELSE IF Required(disposition) THEN result(FALSE, "MissingField", s2)
        ELSE result(TRUE, "", extinct(s2))

\* the choice of the position with the Position property looked at first
PositionSourcePositionFirst(barycenterPosition, rectangularPos) ==
    IF rectangularPos # NoVal THEN "Position"
    ELSE IF barycenterPosition # NoVal THEN "barycenter"
    ELSE "RADecDistance"

\* where createStar takes the position from: the barycenter of the orbit,
\* the Position property, or RA, Dec and Distance
PositionSource(barycenterPosition, rectangularPos) ==
    IF barycenterPosition # NoVal THEN "barycenter"
    ELSE IF rectangularPos # NoVal THEN "Position"
    ELSE "RADecDistance"

\* createStar after the details are set: the index and the position
CreateStarPosition(d, disposition, catalogNumber, r, isBarycenter) ==
    LET place(s1) ==
            IF PositionSource(d.barycenterPosition, r.position) = "barycenter"
            THEN CreateStarMagnitude([s1 EXCEPT !.pos = d.barycenterPosition],
                                     disposition, r, isBarycenter, d.barycenters)
            ELSE IF PositionSource(d.barycenterPosition, r.position) = "Position"
            THEN CreateStarMagnitude([s1 EXCEPT !.pos = r.position],
                                     disposition, r, isBarycenter, d.barycenters)
            ELSE IF Required(disposition) /\ (~r.ra \/ ~r.dec \/ r.dist = NoVal)
            THEN [ok |-> FALSE, why |-> "MissingField", star |-> s1,
                  barycenters |-> d.barycenters]
            ELSE CreateStarMagnitude(
                     IF r.ra \/ r.dec \/ r.dist # NoVal
                     THEN [s1 EXCEPT !.pos = EquatorialToCelestialCart(
                               IF r.dist # NoVal THEN r.dist
                               ELSE IF disposition = "Modify" THEN @ ELSE 0)]
                     ELSE s1,
                     disposition, r, isBarycenter, d.barycenters)
    IN  IF ~d.ok
        THEN [ok |-> FALSE, why |-> d.why, star |-> d.star,
              barycenters |-> d.barycenters]
        ELSE place(IF disposition # "Modify"
                   THEN [d.star EXCEPT !.index = catalogNumber] ELSE d.star)

\* createStar: [ok, why, star, barycenters]
CreateStar(star, disposition, catalogNumber, r, isBarycenter, pending) ==
    CreateStarPosition(
        CreateOrUpdateStarDetails(star, disposition, catalogNumber, r,
                                  isBarycenter, pending),
        disposition, catalogNumber, r, isBarycenter)

(***************************************************************************)
(* load: one record of the stream per step.                                *)
(***************************************************************************)
\* the switch on the disposition: the catalog number of the record, the
\* existing entry it targets (0 for none), the auto-number counter after
\* it, and whether load returns false here
Disposition(r) ==
    LET auto == [catalogNumber |-> nextAutoCatalogNumber, star |-> 0,
                 next |-> nextAutoCatalogNumber - 1, fatal |-> FALSE]
        at(catalogNumber) ==
            [catalogNumber |-> catalogNumber,
             star |-> IF catalogNumber # InvalidIndex
                      THEN FindWhileLoading(catalogNumber) ELSE 0,
             next |-> nextAutoCatalogNumber, fatal |-> FALSE]
        resolved(byName) ==
            IF r.disp = "Replace" /\ byName = InvalidIndex THEN auto
            ELSE at(byName)
    IN  IF r.disp = "Add"
        THEN IF r.num # InvalidIndex THEN at(r.num)
             ELSE IF ~r.isStar /\ r.name = NoName
             THEN [catalogNumber |-> InvalidIndex, star |-> 0,
                   next |-> nextAutoCatalogNumber, fatal |-> TRUE]
             ELSE auto
        ELSE resolved(IF r.num = InvalidIndex /\ r.name # NoName
                      THEN FindCatalogNumberByName(r.name) ELSE r.num)

\* the test of load with the wrong disposition compared
ModifyNonexistentWrongDisposition(isNewStar, disposition) ==
    isNewStar /\ disposition = "Replace"

\* the test of load that refuses to modify an entry that does not exist
ModifyNonexistent(isNewStar, disposition) ==
    isNewStar /\ disposition = "Modify"

\* every error inside a record returns false from load
RecordErrorAlwaysFatal(why) == "fatal"

\* how an error inside a record ends the step: "rejected" goes on with the
\* next record, "fatal" returns false from load
RecordError(why) ==
    IF why \in {"UnrecognizedObjectType", "NoBeginGroup", "NotAHash", "BadBarycenter"}
    THEN "fatal" ELSE "rejected"

\* what `last` says of a record step: the disposition, the catalog number
\* the record stands for, whether it has an orbit, the catalog number of its
\* OrbitBarycenter, and the error that ended it ("" when it was applied)
RecordOp(r, sw, why) ==
    [op |-> "record", why |-> why, disp |-> r.disp,
     catNo |-> sw.catalogNumber, orbit |-> r.orbit,
     bary |-> BarycenterCatNo(r)]

LoadBegin ==
    /\ phase = "loading"
    /\ stream = "closed"
    /\ stream' = "open"
    /\ last' = Op("load", "")
    /\ UNCHANGED <<phase, storeVars, nRecords, finalVars, crossIndexes>>

\* TokenEnd: load returns true
LoadEnd ==
    /\ stream = "open"
    /\ stream' = "closed"
    /\ last' = Op("loadEnd", "")
    /\ UNCHANGED <<phase, storeVars, nRecords, finalVars, crossIndexes>>

\* the end of an iteration of load, c being what createStar returned
Commit(r, sw, c) ==
    /\ nextAutoCatalogNumber' = sw.next
    /\ barycenters' = c.barycenters
    /\ UNCHANGED binFileCatalogNumberIndex
    /\ IF c.ok
       THEN /\ stream' = "open"
            /\ last' = RecordOp(r, sw, "")
            /\ IF sw.star = 0
               THEN /\ unsortedStars' = Append(unsortedStars, c.star)
                    /\ nStars' = nStars + 1
                    /\ stcFileCatalogNumberIndex' =
                           {p \in stcFileCatalogNumberIndex : p[1] # sw.catalogNumber}
                           \cup {<<sw.catalogNumber, Len(unsortedStars) + 1>>}
               ELSE /\ unsortedStars' = [unsortedStars EXCEPT ![sw.star] = c.star]
                    /\ UNCHANGED <<nStars, stcFileCatalogNumberIndex>>
            /\ namesDB' =
                   IF namesDB.present /\ r.name # NoName
                   THEN [namesDB EXCEPT !.index =
                            NamesAdd(NamesErase(@, sw.catalogNumber),
                                     sw.catalogNumber, r.name)]
                   ELSE namesDB
       ELSE /\ stream' = IF RecordError(c.why) = "fatal" THEN "closed" ELSE "open"
            /\ last' = RecordOp(r, sw, c.why)
            /\ unsortedStars' =
                   IF sw.star = 0 THEN unsortedStars
                   ELSE [unsortedStars EXCEPT ![sw.star] = c.star]
            /\ UNCHANGED <<nStars, stcFileCatalogNumberIndex, namesDB>>

\* an iteration of load after the switch on the disposition
Merge1(r, sw) ==
    IF sw.fatal \/ r.syntax = "notHash"
    THEN /\ stream' = "closed"
         /\ nextAutoCatalogNumber' = sw.next
         /\ last' = RecordOp(r, sw, IF sw.fatal THEN "BadBarycenter" ELSE "NotAHash")
         /\ UNCHANGED <<unsortedStars, nStars, binFileCatalogNumberIndex,
                        stcFileCatalogNumberIndex, barycenters, namesDB>>
    ELSE IF ModifyNonexistent(sw.star = 0, r.disp)
    THEN /\ stream' = IF RecordError("MissingTarget") = "fatal"
                      THEN "closed" ELSE "open"
         /\ nextAutoCatalogNumber' = sw.next
         /\ last' = RecordOp(r, sw, "MissingTarget")
         /\ UNCHANGED <<unsortedStars, nStars, binFileCatalogNumberIndex,
                        stcFileCatalogNumberIndex, barycenters, namesDB>>
    ELSE Commit(r, sw,
                CreateStar(IF sw.star = 0 THEN NewStar ELSE unsortedStars[sw.star],
                           r.disp, sw.catalogNumber, r, ~r.isStar, barycenters))

LoadRecord(r) ==
    /\ stream = "open"
    /\ nRecords < MaxRecords
    /\ nRecords' = nRecords + 1
    /\ IF r.syntax \in {"badType", "noBrace"}
       THEN /\ stream' = "closed"
            /\ last' = [Op("record", IF r.syntax = "badType"
                                     THEN "UnrecognizedObjectType"
                                     ELSE "NoBeginGroup")
                        EXCEPT !.disp = r.disp, !.catNo = r.num]
            /\ UNCHANGED storeVars
       ELSE Merge1(r, Disposition(r))
    /\ Len(unsortedStars') <= MaxStars
    /\ Len(barycenters') <= MaxPending
    /\ nextAutoCatalogNumber' >= FirstAutoCatalogNumber - MaxAuto
    /\ UNCHANGED <<phase, finalVars, crossIndexes>>

(***************************************************************************)
(* finish.                                                                 *)
(***************************************************************************)
MaxPosition == 2

\* a rebuild that leaves out the entries at the origin
RebuildAndSortWithoutOrigin(us, from) == SelectSeq(us, LAMBDA st : st.pos # 0)

\* DynamicStarOctree::insertObject and rebuildAndSort: every entry of the
\* provisional list is emitted once, entries of one place next to each other
RECURSIVE RebuildAndSort(_, _)
RebuildAndSort(us, from) ==
    IF from > MaxPosition THEN <<>>
    ELSE SelectSeq(us, LAMBDA st : st.pos = from) \o RebuildAndSort(us, from + 1)

\* StarDatabase::find(catalogNumber) over a final array and its index: the
\* position in the array, 0 for nullptr
FindIn(index, array, catalogNumber) ==
    LET i == LowerBound(index, array, catalogNumber)
    IN  IF i <= Len(index) /\ array[index[i]].index = catalogNumber
        THEN index[i] ELSE 0

Find(catalogNumber) == FindIn(catalogNumberIndex, stars, catalogNumber)

\* the loop of finish over the pending list, from its k-th pair on:
\* [stars, failed]
RECURSIVE ResolveBarycenters(_, _, _, _, _)
ResolveBarycenters(pending, k, index, array, failed) ==
    IF k > Len(pending) THEN [stars |-> array, failed |-> failed]
    ELSE LET star == FindIn(index, array, pending[k].catNo)
             barycenter == FindIn(index, array, pending[k].barycenterCatNo)
             linked == [i \in 1..Len(array) |->
                          LET a == IF i = star
                                   THEN [array[i] EXCEPT !.orbitBarycenter = barycenter]
                                   ELSE array[i]
                          IN  IF i = barycenter
                              THEN [a EXCEPT !.orbitingStars = Append(@, star)]
                              ELSE a]
         IN  IF star # 0 /\ barycenter # 0
             THEN ResolveBarycenters(pending, k + 1, index, linked, failed)
             ELSE ResolveBarycenters(pending, k + 1, index, array, TRUE)

Finish ==
    /\ phase = "loading"
    /\ stream = "closed"
    /\ LET sortedStars == RebuildAndSort(unsortedStars, 0)
       IN  \E index \in SortByIndex(sortedStars) :
              LET res == ResolveBarycenters(barycenters, 1, index, sortedStars, FALSE)
              IN  /\ stars' = res.stars
                  /\ catalogNumberIndex' = index
                  /\ assertFailed' = res.failed
    /\ unsortedStars' = <<>>
    /\ binFileCatalogNumberIndex' = <<>>
    /\ stcFileCatalogNumberIndex' = {}
    /\ barycenters' = <<>>
    /\ phase' = "finished"
    /\ last' = Op("finish", "")
    /\ UNCHANGED <<nStars, nextAutoCatalogNumber, namesDB, stream, nRecords,
                   crossIndexes>>

(***************************************************************************)
(* setNameDatabase.                                                        *)
(***************************************************************************)
NameDatabases == {{}}

SetNameDatabase(index) ==
    /\ phase = "loading"
    /\ stream = "closed"
    /\ ~namesDB.present
    /\ namesDB' = [present |-> TRUE, index |-> index]
    /\ last' = Op("setNameDatabase", "")
    /\ UNCHANGED <<phase, unsortedStars, nStars, binFileCatalogNumberIndex,
                   stcFileCatalogNumberIndex, barycenters, nextAutoCatalogNumber,
                   stream, nRecords, finalVars, crossIndexes>>

(***************************************************************************)
(* The textual records offered to load.                                    *)
(***************************************************************************)
\* a complete star definition with nothing optional
PlainBody ==
    [spectral |-> "G", texture |-> FALSE, orbit |-> FALSE,
     baryName |-> NoName, baryNum |-> NoVal, position |-> NoVal,
     ra |-> TRUE, dec |-> TRUE, dist |-> 1, absMag |-> 1, appMag |-> NoVal,
     extinction |-> NoVal]

\* the bodies that try every disposition: a complete one, and one for each
\* way createStar rejects a record that has no orbit
StcBodies ==
    {PlainBody,
     [PlainBody EXCEPT !.spectral = NoName],
     [PlainBody EXCEPT !.spectral = "bad"],
     [PlainBody EXCEPT !.position = 0, !.absMag = NoVal, !.appMag = 3]}

StcHeaders ==
    [syntax : {"ok"}, disp : {"Add", "Replace", "Modify"}, isStar : {TRUE},
     num : {1, FirstAutoCatalogNumber, InvalidIndex}, name : {NoName, "Sol"}]

Merge(h, b) == [f \in DOMAIN h \cup DOMAIN b |-> IF f \in DOMAIN h THEN h[f] ELSE b[f]]

PlainRecord ==
    Merge([syntax |-> "ok", disp |-> "Add", isStar |-> TRUE, num |-> 1,
           name |-> NoName], PlainBody)

\* records about entry 1 orbiting a barycenter: entry 2, or the entry named Sol
OrbitRecords ==
    {[PlainRecord EXCEPT !.orbit = TRUE, !.baryNum = 2],
     [PlainRecord EXCEPT !.orbit = TRUE, !.baryNum = 2, !.absMag = NoVal],
     [PlainRecord EXCEPT !.orbit = TRUE, !.baryName = "Sol"],
     [PlainRecord EXCEPT !.orbit = TRUE, !.baryName = "HIP 2", !.disp = "Modify"],
     [PlainRecord EXCEPT !.baryNum = 2],
     [PlainRecord EXCEPT !.num = 2]}

StcRecords ==
    {Merge(h, b) : h \in StcHeaders, b \in StcBodies}
    \cup OrbitRecords
    \cup {[PlainRecord EXCEPT !.isStar = FALSE, !.num = InvalidIndex, !.name = n] :
              n \in {NoName, "Sol"}}
    \cup {[PlainRecord EXCEPT !.syntax = x] : x \in {"badType", "noBrace", "notHash"}}
    \cup {[PlainRecord EXCEPT !.syntax = "notHash", !.num = InvalidIndex]}

(***************************************************************************)
(* The specification.                                                      *)
(***************************************************************************)
Init ==
    /\ phase = "loading"
    /\ unsortedStars = <<>>
    /\ nStars = 0
    /\ binFileCatalogNumberIndex = <<>>
    /\ stcFileCatalogNumberIndex = {}
    /\ barycenters = <<>>
    /\ nextAutoCatalogNumber = FirstAutoCatalogNumber
    /\ namesDB = [present |-> FALSE, index |-> {}]
    /\ stars = <<>>
    /\ catalogNumberIndex = <<>>
    /\ stream = "closed"
    /\ nRecords = 0
    /\ assertFailed = FALSE
    /\ last = Op("init", "")
    /\ crossIndexes = [catalog \in Catalogs |-> NoTable]
    /\ query = NoQuery

Next ==
    \/ \E file \in BinFiles : LoadBinary(file) /\ UNCHANGED query
    \/ \E index \in NameDatabases : SetNameDatabase(index) /\ UNCHANGED query
    \/ LoadBegin /\ UNCHANGED query
    \/ \E r \in StcRecords : LoadRecord(r) /\ UNCHANGED query
    \/ LoadEnd /\ UNCHANGED query
    \/ Finish /\ UNCHANGED query

Spec == Init /\ [][Next]_vars

(***************************************************************************)
(* Cross indexes: loadCrossIndex and searchCrossIndexForCatalogNumber.     *)
(***************************************************************************)
CrossIndexVersion == 256

\* the catalog arguments: the catalogs, and one that is not below MaxCatalog
CatalogArgs == Catalogs \cup {"MaxCatalog"}

\* CrossIndexRecord: a number of the catalog and the number of the store
CrossIndexRecords ==
    {[catalogNumber |-> 1, celCatalogNumber |-> 1],
     [catalogNumber |-> 1, celCatalogNumber |-> 2],
     [catalogNumber |-> 2, celCatalogNumber |-> 1]}

\* the streams offered to loadCrossIndex: every record sequence under a good
\* header, with and without an incomplete record at the end, and one stream
\* per header defect
CrossIndexFiles ==
    LET good(recs, p) ==
            [header |-> TRUE, magic |-> CROSSINDEX_MAGIC,
             version |-> CrossIndexVersion, recs |-> recs, partial |-> p]
    IN  {good(recs, p) : recs \in SeqsUpTo(CrossIndexRecords, MaxCrossRecords),
                         p \in BOOLEAN}
        \cup {[good(<<>>, FALSE) EXCEPT !.header = FALSE],
              [good(<<>>, FALSE) EXCEPT !.magic = "CELSTARS"],
              [good(<<>>, FALSE) EXCEPT !.version = 512]}

\* the header checks of loadCrossIndex
CrossIndexHeaderOk(file) ==
    /\ file.header
    /\ file.magic = CROSSINDEX_MAGIC
    /\ file.version = CrossIndexVersion

\* CrossIndexEntry::operator<
EntryLess(a, b) == a.catalogNumber < b.catalogNumber

\* the entries left in the order they were read
Unsorted(entries) == {[i \in 1..Len(entries) |-> i]}

\* std::sort of the entries: any order of the positions of entries in which
\* no entry is less than one before it (the order of equal keys is
\* unspecified)
Sort(entries) ==
    {p \in Permutations1(Len(entries)) :
        \A i, j \in 1..Len(entries) :
            i < j => ~EntryLess(entries[p[j]], entries[p[i]])}

\* loadCrossIndex: the table of the catalog is deleted before the stream is
\* looked at, and the pointer is assigned only when the load succeeds. A
\* table that is deleted and still pointed at has freed set. Deleting such
\* a table once more is undefined; the call is taken to go on.
LoadCrossIndex(catalog, file) ==
    /\ IF catalog \notin Catalogs
       THEN /\ crossIndexes' = crossIndexes
            /\ query' = [op |-> "loadCrossIndex", catalog |-> catalog,
                         file |-> file, ok |-> FALSE]
       ELSE LET old == crossIndexes[catalog]
                deleted == IF old.loaded THEN [old EXCEPT !.freed = TRUE]
                           ELSE old
            IN  IF ~CrossIndexHeaderOk(file) \/ file.partial
                THEN /\ crossIndexes' = [crossIndexes EXCEPT ![catalog] = deleted]
                     /\ query' = [op |-> "loadCrossIndex", catalog |-> catalog,
                                  file |-> file, ok |-> FALSE]
                ELSE \E p \in Sort(file.recs) :
                     /\ crossIndexes' =
                            [crossIndexes EXCEPT ![catalog] =
                                [loaded |-> TRUE, freed |-> FALSE,
                                 entries |-> [i \in 1..Len(file.recs) |->
                                                 file.recs[p[i]]]]]
                     /\ query' = [op |-> "loadCrossIndex", catalog |-> catalog,
                                  file |-> file, ok |-> TRUE]
    /\ UNCHANGED <<phase, unsortedStars, nStars, binFileCatalogNumberIndex,
                   stcFileCatalogNumberIndex, barycenters,
                   nextAutoCatalogNumber, namesDB, stars, catalogNumberIndex,
                   stream, nRecords, assertFailed, last>>

\* std::lower_bound over the table: the first place whose entry is not less
\* than number, Len(entries) + 1 if none
EntryLowerBound(entries, number) ==
    LET hits == {i \in 1..Len(entries) :
                    ~EntryLess(entries[i], [catalogNumber |-> number])}
    IN  IF hits = {} THEN Len(entries) + 1
        ELSE CHOOSE i \in hits : \A j \in hits : i <= j

\* searchCrossIndexForCatalogNumber: the values the call can return. A read
\* of a deleted table is undefined: any number can come back.
SearchCrossIndexForCatalogNumber(catalog, number) ==
    IF catalog \notin Catalogs THEN {InvalidIndex}
    ELSE LET xindex == crossIndexes[catalog]
             iter == EntryLowerBound(xindex.entries, number)
         IN  IF ~xindex.loaded THEN {InvalidIndex}
             ELSE IF xindex.freed THEN 0..InvalidIndex
             ELSE IF \/ iter = Len(xindex.entries) + 1
                     \/ xindex.entries[iter].catalogNumber # number
                  THEN {InvalidIndex}
                  ELSE {xindex.entries[iter].celCatalogNumber}

SearchCrossIndex(catalog, number) ==
    /\ \E result \in SearchCrossIndexForCatalogNumber(catalog, number) :
           query' = [op |-> "searchCrossIndex", catalog |-> catalog,
                     number |-> number, result |-> result]
    /\ UNCHANGED <<phase, unsortedStars, nStars, binFileCatalogNumberIndex,
                   stcFileCatalogNumberIndex, barycenters,
                   nextAutoCatalogNumber, namesDB, stars, catalogNumberIndex,
                   stream, nRecords, assertFailed, last, crossIndexes>>

NextCrossIndex ==
    \/ \E catalog \in CatalogArgs, file \in CrossIndexFiles :
           LoadCrossIndex(catalog, file)
    \/ \E catalog \in CatalogArgs, number \in 1..3 :
           SearchCrossIndex(catalog, number)

SpecCrossIndex == Init /\ [][NextCrossIndex]_vars

(***************************************************************************)
(* Tycho catalog numbers: parseTychoCatalogNumber and                      *)
(* catalogNumberToString. AstroCatalog::IndexNumber is a 32-bit unsigned   *)
(* integer; it is kept here as two 16-bit halves, [hi, lo], so that the    *)
(* arithmetic of the program, wrap-around included, is computed exactly.   *)
(***************************************************************************)
TYC3_MULTIPLIER == 1000000000
TYC2_MULTIPLIER == 10000
TYC123_MIN == 1
TYC1_MAX == 9999
TYC2_MAX == 99999
TYC3_MAX == 3
TDSC_TYC3_MAX == 4
TDSC_TYC3_MAX_RANGE_TYC1 == 2907
MAX_HIPPARCOS_NUMBER == 999999

Half == 2^16

\* the 32-bit unsigned value of n, 0 <= n < 2^31
U32(n) == [hi |-> (n \div Half) % Half, lo |-> n % Half]

\* a + b in 32-bit unsigned arithmetic
Add32(a, b) ==
    [hi |-> (a.hi + b.hi + (a.lo + b.lo) \div Half) % Half,
     lo |-> (a.lo + b.lo) % Half]

\* a - b in 32-bit unsigned arithmetic
Sub32(a, b) ==
    LET borrow == IF a.lo < b.lo THEN 1 ELSE 0
    IN  [hi |-> (a.hi - b.hi - borrow + 2 * Half) % Half,
         lo |-> (a.lo - b.lo + Half) % Half]

\* a * n in 32-bit unsigned arithmetic, n < 2^15
Mul32(a, n) ==
    [hi |-> (a.hi * n + (a.lo * n) \div Half) % Half,
     lo |-> (a.lo * n) % Half]

Less32(a, b) == a.hi < b.hi \/ (a.hi = b.hi /\ a.lo < b.lo)

\* a / TYC3_MULTIPLIER: 2^32 - 1 holds TYC3_MULTIPLIER four times
DivTYC3(a) ==
    CHOOSE q \in 0..4 :
        /\ ~Less32(a, Mul32(U32(TYC3_MULTIPLIER), q))
        /\ q < 4 => Less32(a, Mul32(U32(TYC3_MULTIPLIER), q + 1))

\* the integer of a 32-bit value below 2^31
ToInt(a) == a.hi * Half + a.lo

\* the ranges the parser accepts for the three numbers of a Tycho name
TychoAccepted(tycParts) ==
    /\ tycParts[1] >= TYC123_MIN /\ tycParts[1] <= TYC1_MAX
    /\ tycParts[2] >= TYC123_MIN /\ tycParts[2] <= TYC2_MAX
    /\ tycParts[3] >= TYC123_MIN
    /\ \/ tycParts[3] <= TYC3_MAX
       \/ (tycParts[3] = TDSC_TYC3_MAX /\ tycParts[1] <= TDSC_TYC3_MAX_RANGE_TYC1)

\* parseTychoCatalogNumber on a name "TYC a-b-c" with tycParts = <<a, b, c>>
ParseTychoCatalogNumber(tycParts) ==
    IF TychoAccepted(tycParts)
    THEN [ok |-> TRUE,
          catalogNumber |->
              Add32(Add32(Mul32(U32(TYC3_MULTIPLIER), tycParts[3]),
                          U32(tycParts[2] * TYC2_MULTIPLIER)),
                    U32(tycParts[1]))]
    ELSE [ok |-> FALSE, catalogNumber |-> U32(0)]

\* catalogNumberToString: the catalog and the numbers that are printed
CatalogNumberToString(catalogNumber) ==
    IF ~Less32(U32(MAX_HIPPARCOS_NUMBER), catalogNumber)
    THEN [catalog |-> "HIP", parts |-> <<ToInt(catalogNumber)>>]
    ELSE LET tyc3 == DivTYC3(catalogNumber)
             rest == ToInt(Sub32(catalogNumber,
                                 Mul32(U32(TYC3_MULTIPLIER), tyc3)))
             tyc2 == rest \div TYC2_MULTIPLIER
             tyc1 == rest - tyc2 * TYC2_MULTIPLIER
         IN  [catalog |-> "TYC", parts |-> <<tyc1, tyc2, tyc3>>]

\* the Tycho names tried: the numbers at and around the limits of each part
TychoNames ==
    {<<tyc1, tyc2, tyc3>> :
        tyc1 \in {0, 1, 2705, 2907, 2908, 9999, 10000},
        tyc2 \in {0, 1, 29496, 29497, 99999, 100000},
        tyc3 \in 0..5}

ParseTycho(tycParts) ==
    /\ query' = [op |-> "parseTychoCatalogNumber", parts |-> tycParts,
                 parsed |-> ParseTychoCatalogNumber(tycParts)]
    /\ UNCHANGED <<phase, unsortedStars, nStars, binFileCatalogNumberIndex,
                   stcFileCatalogNumberIndex, barycenters,
                   nextAutoCatalogNumber, namesDB, stars, catalogNumberIndex,
                   stream, nRecords, assertFailed, last, crossIndexes>>

\* the number a name parsed to is printed
PrintParsed ==
    /\ query.op = "parseTychoCatalogNumber"
    /\ query.parsed.ok
    /\ query' = [op |-> "catalogNumberToString", parts |-> query.parts,
                 parsed |-> query.parsed,
                 text |-> CatalogNumberToString(query.parsed.catalogNumber)]
    /\ UNCHANGED <<phase, unsortedStars, nStars, binFileCatalogNumberIndex,
                   stcFileCatalogNumberIndex, barycenters,
                   nextAutoCatalogNumber, namesDB, stars, catalogNumberIndex,
                   stream, nRecords, assertFailed, last, crossIndexes>>

NextTycho ==
    \/ \E tycParts \in TychoNames : ParseTycho(tycParts)
    \/ PrintParsed

SpecTycho == Init /\ [][NextTycho]_vars

(***************************************************************************)
(* load with its input on record: every record of a wider choice of        *)
(* definitions, read by load from construction on.                         *)
(***************************************************************************)
\* the bodies that try what a definition can give or leave out: custom
\* details, the three sources of the position, the two magnitudes and the
\* extinction
RecordBodies ==
    {PlainBody,
     [PlainBody EXCEPT !.texture = TRUE],
     [PlainBody EXCEPT !.spectral = NoName],
     [PlainBody EXCEPT !.spectral = NoName, !.texture = TRUE],
     [PlainBody EXCEPT !.absMag = NoVal],
     [PlainBody EXCEPT !.absMag = NoVal, !.appMag = 3],
     [PlainBody EXCEPT !.absMag = NoVal, !.appMag = 3, !.position = 0],
     [PlainBody EXCEPT !.absMag = NoVal, !.appMag = 3, !.extinction = 1],
     [PlainBody EXCEPT !.absMag = NoVal, !.extinction = 1],
     [PlainBody EXCEPT !.position = 2, !.ra = FALSE, !.dec = FALSE, !.dist = NoVal],
     [PlainBody EXCEPT !.ra = FALSE],
     [PlainBody EXCEPT !.dec = FALSE],
     [PlainBody EXCEPT !.dist = NoVal],
     [PlainBody EXCEPT !.orbit = TRUE, !.baryNum = 2, !.position = 1],
     [PlainBody EXCEPT !.orbit = TRUE, !.baryNum = 2, !.ra = FALSE,
                       !.dec = FALSE, !.dist = NoVal,
                       !.absMag = NoVal, !.appMag = 3]}

RecordHeaders ==
    [syntax : {"ok"}, disp : {"Add", "Replace", "Modify"}, isStar : BOOLEAN,
     num : {1, 2}, name : {NoName}]

RecordInputs == {Merge(h, b) : h \in RecordHeaders, b \in RecordBodies}

LoadRecordOf(r) ==
    /\ LoadRecord(r)
    /\ query' = [op |-> "record", r |-> r]

NextRecord ==
    \/ LoadBegin /\ UNCHANGED query
    \/ \E r \in RecordInputs : LoadRecordOf(r)

SpecRecord == Init /\ [][NextRecord]_vars

(***************************************************************************)
(* load and finish over definitions of entries that orbit each other:      *)
(* entry 1 and entry 2, with and without an orbit, moved and modified.     *)
(***************************************************************************)
LinkRecords ==
    {PlainRecord,
     [PlainRecord EXCEPT !.num = 2],
     [PlainRecord EXCEPT !.orbit = TRUE, !.baryNum = 2],
     [PlainRecord EXCEPT !.orbit = TRUE, !.baryNum = 2, !.absMag = NoVal],
     [PlainRecord EXCEPT !.disp = "Modify", !.orbit = TRUE, !.baryNum = 2],
     [PlainRecord EXCEPT !.disp = "Modify", !.orbit = TRUE, !.baryNum = 1],
     [PlainRecord EXCEPT !.disp = "Modify", !.num = 2, !.position = 2],
     [PlainRecord EXCEPT !.disp = "Modify", !.position = 2],
     [PlainRecord EXCEPT !.num = InvalidIndex],
     [PlainRecord EXCEPT !.num = InvalidIndex, !.disp = "Replace"],
     [PlainRecord EXCEPT !.num = InvalidIndex, !.disp = "Modify"],
     [PlainRecord EXCEPT !.num = InvalidIndex, !.isStar = FALSE]}

NextLinks ==
    \/ LoadBegin /\ UNCHANGED query
    \/ \E r \in LinkRecords : LoadRecordOf(r)
    \/ LoadEnd /\ UNCHANGED query
    \/ Finish /\ UNCHANGED query

SpecLinks == Init /\ [][NextLinks]_vars

(***************************************************************************)
(* StarNameDatabase::findCatalogNumberByName. A name is the sequence of    *)
(* its characters, so that find, rfind and substr are computed as the      *)
(* program computes them. Places in a name count from 1; 0 is npos.        *)
(***************************************************************************)
IsAlpha(c) ==
    c \in {"A", "B", "C", "F", "L", "R", "X", "a", "e", "g", "h", "i", "l", "n",
           "p", "r", "t", "u", "y", "z"}

IsDigit(c) == c \in {"0", "1", "2", "3", "4", "5", "6", "7", "8", "9"}

IsSpace(c) == c = " "

\* Constellation::getConstellation and Constellation::getAbbreviation: the
\* abbreviation of the constellation with this name, genitive or
\* abbreviation, <<>> for nullptr
GetConstellation(conName) ==
    IF conName \in {<<"C", "e", "n">>, <<"C", "e", "n", "t", "a", "u", "r", "i">>, <<"C", "e", "n", "t", "a", "u", "r", "u", "s">>}
    THEN <<"C", "e", "n">> ELSE <<>>

\* GetCanonicalGreekAbbreviation: the abbreviation of the Greek letter with
\* this name or abbreviation, <<>> when it is none
GetCanonicalGreekAbbreviation(letter) ==
    IF letter \in {<<"A", "l", "p", "h", "a">>, <<"A", "L", "F">>} THEN <<"A", "L", "F">> ELSE <<>>

\* std::string::find(' ')
FindSpace(name) ==
    LET hits == {i \in 1..Len(name) : name[i] = " "}
    IN  IF hits = {} THEN 0 ELSE CHOOSE i \in hits : \A j \in hits : i <= j

\* std::string::rfind(' ')
RFindSpace(name) ==
    LET hits == {i \in 1..Len(name) : name[i] = " "}
    IN  IF hits = {} THEN 0 ELSE CHOOSE i \in hits : \A j \in hits : i >= j

\* do { --pos1; } while (isspace(name[pos1])): the last place before pos1
\* that holds no space
SkipSpacesBack(name, pos1) ==
    LET hits == {i \in 1..(pos1 - 1) : ~IsSpace(name[i])}
    IN  CHOOSE i \in hits : \A j \in hits : i >= j

\* the names built for a prefix, the abbreviation of a constellation and
\* the component that follows it
BayerNames(prefix, con, rest) ==
    LET len == Len(prefix)
        hasDigit == len > 2 /\ IsAlpha(prefix[1]) /\ IsDigit(prefix[len])
        letter == GetCanonicalGreekAbbreviation(
                      SubSeq(prefix, 1, IF hasDigit THEN len - 1 ELSE len))
    IN  IF letter = <<>>
        THEN [priName |-> prefix \o <<" ">> \o con \o rest, altName |-> <<>>]
        ELSE IF hasDigit
        THEN [priName |-> letter \o <<prefix[len]>> \o <<" ">> \o con \o rest,
              altName |-> <<>>]
        ELSE [priName |-> letter \o <<" ">> \o con \o rest,
              altName |-> letter \o <<"1", " ">> \o con \o rest]

\* the block of findCatalogNumberByName that looks for a Bayer or Flamsteed
\* designation: [inBlock, isOrbitingStar, priName, altName]
Designation(name) ==
    LET pos == FindSpace(name)
        nameLength == Len(name)
        pos1 == RFindSpace(name)
        isOrbitingStar == /\ pos1 > pos
                          /\ pos1 < nameLength
                          /\ IsAlpha(name[pos1 + 1])
        last1 == IF isOrbitingStar THEN SkipSpacesBack(name, pos1) ELSE pos1
        conName == IF isOrbitingStar /\ last1 >= pos
                   THEN SubSeq(name, pos + 1, last1)
                   ELSE SubSeq(name, pos + 1, nameLength)
        named(con, rest) ==
            IF con = <<>> THEN [priName |-> name, altName |-> <<>>]
            ELSE BayerNames(SubSeq(name, 1, pos - 1), con, rest)
        with(n) == [inBlock |-> TRUE, isOrbitingStar |-> isOrbitingStar,
                    priName |-> n.priName, altName |-> n.altName]
    IN  IF pos # 1 /\ pos # 0 /\ pos < nameLength
        THEN with(named(GetConstellation(conName),
                        IF isOrbitingStar THEN SubSeq(name, pos1, nameLength)
                        ELSE <<>>))
        ELSE [inBlock |-> FALSE, isOrbitingStar |-> FALSE,
              priName |-> name, altName |-> <<>>]

\* the lookups with the alternate name tried before the appended " A"
LookupsAlternateFirst(index, d) ==
    LET get(n) == GetCatalogNumberByName(index, n)
    IN  IF d.inBlock /\ get(d.priName) # InvalidIndex THEN get(d.priName)
        ELSE IF d.altName # <<>> /\ get(d.altName) # InvalidIndex
        THEN get(d.altName)
        ELSE IF ~d.isOrbitingStar THEN get(d.priName \o <<" ", "A">>)
        ELSE InvalidIndex

\* the lookups of findCatalogNumberByName after the name as it was given
Lookups(index, d) ==
    LET get(n) == GetCatalogNumberByName(index, n)
    IN  IF d.inBlock /\ get(d.priName) # InvalidIndex THEN get(d.priName)
        ELSE IF ~d.isOrbitingStar /\ get(d.priName \o <<" ", "A">>) # InvalidIndex
        THEN get(d.priName \o <<" ", "A">>)
        ELSE IF d.altName = <<>> THEN InvalidIndex
        ELSE IF get(d.altName) # InvalidIndex \/ d.isOrbitingStar
        THEN get(d.altName)
        ELSE get(d.altName \o <<" ", "A">>)

\* StarNameDatabase::findCatalogNumberByName
StarNameFindCatalogNumberByName(index, name) ==
    IF GetCatalogNumberByName(index, name) # InvalidIndex
    THEN GetCatalogNumberByName(index, name)
    ELSE Lookups(index, Designation(name))

\* the names asked for: Bayer designations in several spellings, with a
\* digit, with a component, and names that are no designation
TypedNames ==
    {<<"A", "l", "p", "h", "a", " ", "C", "e", "n">>,
     <<"A", "L", "F", " ", "C", "e", "n">>,
     <<"A", "l", "p", "h", "a", " ", "C", "e", "n", "t", "a", "u", "r", "i">>,
     <<"A", "l", "p", "h", "a", "2", " ", "C", "e", "n">>,
     <<"A", "l", "p", "h", "a", " ", "C", "e", "n", " ", "B">>,
     <<"R", "i", "g", "e", "l", " ", "C", "e", "n">>,
     <<"A", "l", "p", "h", "a", " ", "X", "y", "z">>,
     <<"A", "l", "p", "h", "a">>,
     <<"A", "l", "p", "h", "a", " ">>,
     <<>>}

\* the names an entry can be indexed under, each with its catalog number
IndexedNames ==
    {<<<<"A", "l", "p", "h", "a", " ", "C", "e", "n">>, 1>>,
     <<<<"A", "L", "F", " ", "C", "e", "n">>, 2>>,
     <<<<"A", "L", "F", " ", "C", "e", "n", " ", "A">>, 3>>,
     <<<<"A", "L", "F", "1", " ", "C", "e", "n">>, 4>>,
     <<<<"A", "L", "F", "1", " ", "C", "e", "n", " ", "A">>, 5>>,
     <<<<"A", "L", "F", "2", " ", "C", "e", "n">>, 6>>}

\* setNameDatabase with a name index of designations
SetBayerNameDatabase(index) ==
    /\ ~namesDB.present
    /\ namesDB' = [present |-> TRUE, index |-> index]
    /\ last' = Op("setNameDatabase", "")
    /\ UNCHANGED <<phase, unsortedStars, nStars, binFileCatalogNumberIndex,
                   stcFileCatalogNumberIndex, barycenters, nextAutoCatalogNumber,
                   stream, nRecords, finalVars, crossIndexes, query>>

FindName(name) ==
    /\ namesDB.present
    /\ query' = [op |-> "findCatalogNumberByName", name |-> name,
                 result |-> StarNameFindCatalogNumberByName(namesDB.index, name)]
    /\ UNCHANGED <<phase, unsortedStars, nStars, binFileCatalogNumberIndex,
                   stcFileCatalogNumberIndex, barycenters, nextAutoCatalogNumber,
                   namesDB, stars, catalogNumberIndex, stream, nRecords,
                   assertFailed, last, crossIndexes>>

NextName ==
    \/ \E index \in SUBSET IndexedNames : SetBayerNameDatabase(index)
    \/ \E name \in TypedNames : FindName(name)

SpecName == Init /\ [][NextName]_vars

(***************************************************************************)
(* The queries of a finished store. Each call leaves its arguments and     *)
(* what it returned in query; the handler of findVisibleStars and of       *)
(* findCloseStars is handed places of the final array, in order.           *)
(***************************************************************************)
\* the faintest absolute magnitude of an entry kept in the root node
RootAbsMag == 2

\* astro::absToAppMag, the inverse of appToAbsMag
AbsToAppMag(absMag, distance) == absMag + distance

\* the length of the difference of two places
Distance(a, b) == IF a >= b THEN a - b ELSE b - a

\* the places of a node's cell: node 0 is the root, over every place; node
\* k > 0 is the child over the place k - 1
Cell(k) == IF k = 0 THEN 0..MaxPosition ELSE {k - 1}

\* the entries of node k of the octree over the array: the root keeps the
\* entries not fainter than RootAbsMag, a child the fainter ones of its cell
NodeObjects(array, k) ==
    SelectSeq([i \in 1..Len(array) |-> i],
              LAMBDA i : /\ array[i].pos \in Cell(k)
                         /\ (k = 0) = (array[i].mag <= RootAbsMag))

\* the distance from a place to the nearest place of a cell
MinDistance(k, position) ==
    LET ds == {Distance(x, position) : x \in Cell(k)}
    IN  CHOOSE d \in ds : \A e \in ds : d <= e

\* the view along one axis: the half-space of the places that are not
\* behind the eye
InFrustum(x, position, direction) == (x - position) * direction >= 0

\* StaticOctree::processVisibleObjects from node k on: a node is visited
\* when its cell meets the frustum and its faintness threshold at its
\* least distance is within the limiting magnitude; the handler gets the
\* entries of a visited node whose apparent magnitude at their distance is
\* within the limiting magnitude
RECURSIVE ProcessVisibleObjects(_, _, _, _, _)
ProcessVisibleObjects(array, k, position, direction, limitingMag) ==
    IF k > MaxPosition + 1 THEN <<>>
    ELSE (IF /\ \E x \in Cell(k) : InFrustum(x, position, direction)
             /\ \/ k = 0
                \/ AbsToAppMag(RootAbsMag, MinDistance(k, position)) <= limitingMag
          THEN SelectSeq(NodeObjects(array, k),
                         LAMBDA i : AbsToAppMag(array[i].mag,
                                                Distance(array[i].pos, position))
                                    <= limitingMag)
          ELSE <<>>)
         \o ProcessVisibleObjects(array, k + 1, position, direction, limitingMag)

\* a proximity query that leaves out the entries at the radius
RECURSIVE ProcessCloseObjectsExclusive(_, _, _, _)
ProcessCloseObjectsExclusive(array, k, position, radius) ==
    IF k > MaxPosition + 1 THEN <<>>
    ELSE (IF MinDistance(k, position) <= radius
          THEN SelectSeq(NodeObjects(array, k),
                         LAMBDA i : Distance(array[i].pos, position) < radius)
          ELSE <<>>)
         \o ProcessCloseObjectsExclusive(array, k + 1, position, radius)

\* StaticOctree::processCloseObjects from node k on: a node is visited when
\* its cell meets the sphere; the handler gets the entries of a visited
\* node that are within the radius, whatever their magnitude
RECURSIVE ProcessCloseObjects(_, _, _, _)
ProcessCloseObjects(array, k, position, radius) ==
    IF k > MaxPosition + 1 THEN <<>>
    ELSE (IF MinDistance(k, position) <= radius
          THEN SelectSeq(NodeObjects(array, k),
                         LAMBDA i : Distance(array[i].pos, position) <= radius)
          ELSE <<>>)
         \o ProcessCloseObjects(array, k + 1, position, radius)

\* a call that changes nothing but query
Asked(q) ==
    /\ phase = "finished"
    /\ query' = q
    /\ UNCHANGED <<phase, unsortedStars, nStars, binFileCatalogNumberIndex,
                   stcFileCatalogNumberIndex, barycenters,
                   nextAutoCatalogNumber, namesDB, stars, catalogNumberIndex,
                   stream, nRecords, assertFailed, last, crossIndexes>>

\* a find that moves the index entry it found to the front
FindByNumberMoveToFront(catalogNumber) ==
    /\ phase = "finished"
    /\ query' = [op |-> "find", catalogNumber |-> catalogNumber,
                 result |-> Find(catalogNumber)]
    /\ catalogNumberIndex' =
           IF Find(catalogNumber) = 0 THEN catalogNumberIndex
           ELSE <<Find(catalogNumber)>>
                \o SelectSeq(catalogNumberIndex,
                             LAMBDA i : i # Find(catalogNumber))
    /\ UNCHANGED <<phase, unsortedStars, nStars, binFileCatalogNumberIndex,
                   stcFileCatalogNumberIndex, barycenters,
                   nextAutoCatalogNumber, namesDB, stars, stream, nRecords,
                   assertFailed, last, crossIndexes>>

\* find(catalogNumber)
FindByNumber(catalogNumber) ==
    Asked([op |-> "find", catalogNumber |-> catalogNumber,
           result |-> Find(catalogNumber)])

\* find(name)
FindByName(name) ==
    Asked([op |-> "findByName", name |-> name,
           result |-> IF FindCatalogNumberByName(name) # InvalidIndex
                      THEN Find(FindCatalogNumberByName(name)) ELSE 0])

\* crossIndex: the values the call can return, by a linear search for the
\* number of the store. A read of a deleted table is undefined: any number
\* can come back.
CrossIndex(catalog, celCatalogNumber) ==
    IF catalog \notin Catalogs THEN {InvalidIndex}
    ELSE LET xindex == crossIndexes[catalog]
             hits == {i \in 1..Len(xindex.entries) :
                         xindex.entries[i].celCatalogNumber = celCatalogNumber}
         IN  IF ~xindex.loaded THEN {InvalidIndex}
             ELSE IF xindex.freed THEN 0..InvalidIndex
             ELSE IF hits = {} THEN {InvalidIndex}
             ELSE {xindex.entries[CHOOSE i \in hits : \A j \in hits : i <= j]
                       .catalogNumber}

CrossIndexOf(catalog, celCatalogNumber) ==
    \E result \in CrossIndex(catalog, celCatalogNumber) :
        Asked([op |-> "crossIndex", catalog |-> catalog,
               celCatalogNumber |-> celCatalogNumber, result |-> result])

\* searchCrossIndex
SearchCrossIndexOf(catalog, number) ==
    \E celCatalogNumber \in SearchCrossIndexForCatalogNumber(catalog, number) :
        Asked([op |-> "searchCrossIndex", catalog |-> catalog,
               number |-> number,
               result |-> IF celCatalogNumber # InvalidIndex
                          THEN Find(celCatalogNumber) ELSE 0])

\* the names of a catalog number in the number index of the name database,
\* in each order the index can hold them
NamesOf(catalogNumber) ==
    LET names == {p[1] : p \in {q \in namesDB.index : q[2] = catalogNumber}}
    IN  {ns \in [1..Cardinality(names) -> names] :
            \A i, j \in 1..Cardinality(names) : ns[i] = ns[j] => i = j}

\* getStarName of the entry at a place of the final array: its first name,
\* or its catalog number as catalogNumberToString prints it
GetStarName(star) ==
    /\ star \in 1..Len(stars)
    /\ \E ns \in NamesOf(stars[star].index) :
           Asked([op |-> "getStarName", star |-> star,
                  result |-> IF namesDB.present /\ ns # <<>>
                             THEN [name |-> ns[1]]
                             ELSE CatalogNumberToString(U32(stars[star].index))])

\* getStarNameList of the entry at a place of the final array: its names,
\* its HIP designation, its HD and its SAO number, maxNames at the most
GetStarNameList(star, maxNames) ==
    /\ star \in 1..Len(stars)
    /\ \E ns \in NamesOf(stars[star].index),
          hd \in CrossIndex("HenryDraper", stars[star].index),
          sao \in CrossIndex("SAO", stars[star].index) :
           LET hip == stars[star].index
               add(list, on, item) ==
                   IF on /\ Len(list) < maxNames THEN Append(list, item)
                   ELSE list
               named == IF namesDB.present
                        THEN SubSeq([i \in 1..Len(ns) |-> [name |-> ns[i]]],
                                    1, Min(Len(ns), maxNames))
                        ELSE <<>>
               withHip == add(named, hip # InvalidIndex /\ hip # 0,
                              CatalogNumberToString(U32(hip)))
               withHd == add(withHip, hd # InvalidIndex,
                             [catalog |-> "HD", parts |-> <<hd>>])
           IN  Asked([op |-> "getStarNameList", star |-> star,
                      maxNames |-> maxNames,
                      result |-> add(withHd, sao # InvalidIndex,
                                     [catalog |-> "SAO", parts |-> <<sao>>])])

\* NameDatabase::getCompletion: the names of the index that begin with the
\* text, for texts and names that differ by one of these endings
CompletionEndings == {"", "l", "ol"}

GetCompletion(name) ==
    Asked([op |-> "getCompletion", name |-> name,
           result |-> IF name # NoName /\ namesDB.present
                      THEN {p[1] : p \in {q \in namesDB.index :
                               \E e \in CompletionEndings : name \o e = q[1]}}
                      ELSE {}])

\* findVisibleStars, the eye at a place and looking up or down the axis
FindVisibleStars(position, direction, limitingMag) ==
    Asked([op |-> "findVisibleStars", position |-> position,
           direction |-> direction, limitingMag |-> limitingMag,
           result |-> ProcessVisibleObjects(stars, 0, position, direction,
                                            limitingMag)])

\* findCloseStars
FindCloseStars(position, radius) ==
    Asked([op |-> "findCloseStars", position |-> position, radius |-> radius,
           result |-> ProcessCloseObjects(stars, 0, position, radius)])

\* the records loaded before the queries: bright and faint entries at each
\* place, one of them named
QueryRecords ==
    {[PlainRecord EXCEPT !.name = "Sol"],
     [PlainRecord EXCEPT !.dist = 0],
     [PlainRecord EXCEPT !.num = 2, !.dist = 2, !.absMag = 3],
     [PlainRecord EXCEPT !.num = 2, !.dist = 0, !.absMag = 3],
     [PlainRecord EXCEPT !.num = 2, !.dist = 2]}

\* the cross-index streams loaded before or between the queries
QueryCrossIndexFiles ==
    {f \in CrossIndexFiles :
        \/ f.recs = <<[catalogNumber |-> 2, celCatalogNumber |-> 1]>> /\ ~f.partial
        \/ f.recs = <<>> /\ f.partial}

NextQueries ==
    \/ \E index \in NameDatabases : SetNameDatabase(index) /\ UNCHANGED query
    \/ LoadBegin /\ UNCHANGED query
    \/ \E r \in QueryRecords : LoadRecord(r) /\ UNCHANGED query
    \/ LoadEnd /\ UNCHANGED query
    \/ Finish /\ UNCHANGED query
    \/ \E file \in QueryCrossIndexFiles : LoadCrossIndex("HenryDraper", file)
    \/ \E catalogNumber \in 1..2 : FindByNumber(catalogNumber)
    \/ \E name \in {"Sol", "HIP 2", NoName} : FindByName(name)
    \/ \E catalog \in CatalogArgs, n \in 1..2 : CrossIndexOf(catalog, n)
    \/ \E catalog \in CatalogArgs, n \in 1..2 : SearchCrossIndexOf(catalog, n)
    \/ \E star \in 1..MaxStars : GetStarName(star)
    \/ \E star \in 1..MaxStars, maxNames \in 0..3 : GetStarNameList(star, maxNames)
    \/ \E name \in {"S", "Sol", NoName} : GetCompletion(name)
    \/ \E position \in 0..MaxPosition, direction \in {-1, 1},
          limitingMag \in {2, 4} :
           FindVisibleStars(position, direction, limitingMag)
    \/ \E position \in 0..MaxPosition, radius \in 0..MaxPosition :
           FindCloseStars(position, radius)

SpecQueries == Init /\ [][NextQueries]_vars

(***************************************************************************)
(* loadBinary with its input on record: every call of loadBinary on every  *)
(* stream, from construction on.                                           *)
(***************************************************************************)
LoadBinaryOf(file) ==
    /\ LoadBinary(file)
    /\ query' = [op |-> "loadBinary", file |-> file]

NextBinary == \E file \in BinFiles : LoadBinaryOf(file)

SpecBinary == Init /\ [][NextBinary]_vars


(***************************************************************************)
(* Properties.                                                             *)
(***************************************************************************)
\* the step reads one record of the textual stream
RecordStep == nRecords' # nRecords

\* some entry of the provisional list has catalog number n
InStore(n) == \E i \in 1..Len(unsortedStars) : unsortedStars[i].index = n

\* the elements of a sequence
Range(s) == {s[i] : i \in DOMAIN s}

\* the catalog numbers of a list of entries, in order
Numbers(s) == [i \in 1..Len(s) |-> s[i].index]

BlockErrors == {"UnrecognizedObjectType", "NoBeginGroup", "NotAHash"}

PerRecordErrors ==
    {"MissingTarget", "MissingField", "Proximity", "UnresolvedBarycenter",
     "BadSpectralType"}

\* C1: after finish(), the sorted catalog-number index is strictly
\* increasing by catalog number: no two finalized entries share a number.
C1_IndexStrictlyIncreasing ==
    phase = "finished" =>
        \A i, j \in 1..Len(catalogNumberIndex) :
            i < j => stars[catalogNumberIndex[i]].index
                         < stars[catalogNumberIndex[j]].index

\* C2: after finish(), find(e.number) returns exactly the entry e for every
\* finalized entry e, and find(n) returns no entry when no finalized entry
\* has number n.
C2_FindReturnsTheEntry ==
    phase = "finished" =>
        /\ \A i \in 1..Len(stars) : Find(stars[i].index) = i
        /\ \A n \in 0..InvalidIndex :
               (\A i \in 1..Len(stars) : stars[i].index # n) => Find(n) = 0

\* C3: a successful textual Add record with a catalog number N replaces the
\* entry N in place when the store has one (entry count unchanged, numbers
\* unchanged), and otherwise adds exactly one new entry with number N.
C3_AddWithNumber ==
    [][(/\ RecordStep
        /\ last'.disp = "Add"
        /\ last'.why = ""
        /\ nextAutoCatalogNumber' = nextAutoCatalogNumber)
       => IF InStore(last'.catNo)
          THEN /\ nStars' = nStars
               /\ Numbers(unsortedStars') = Numbers(unsortedStars)
          ELSE /\ nStars' = nStars + 1
               /\ Numbers(unsortedStars') =
                      Append(Numbers(unsortedStars), last'.catNo)]_vars

\* C4: a successful textual Add record without a catalog number creates a
\* new entry whose number comes from the decreasing auto-number counter,
\* and that number is the number of no entry already in the store.
C4_AutoNumberIsFresh ==
    [][(/\ RecordStep
        /\ last'.disp = "Add"
        /\ last'.why = ""
        /\ nextAutoCatalogNumber' # nextAutoCatalogNumber)
       => /\ nextAutoCatalogNumber' < nextAutoCatalogNumber
          /\ last'.catNo = nextAutoCatalogNumber
          /\ Numbers(unsortedStars') =
                 Append(Numbers(unsortedStars), last'.catNo)
          /\ ~InStore(last'.catNo)]_vars

\* C5: a textual Modify record in a well-formed block whose number (given
\* or resolved from its name) is the number of no entry is rejected: the
\* entries, the count, the load-time indexes, the pending list, the
\* auto-number counter and the name index are unchanged, and the stream
\* stays open for the next record.
C5_ModifyNonexistentRejected ==
    [][(/\ RecordStep
        /\ last'.disp = "Modify"
        /\ last'.why \notin BlockErrors
        /\ ~InStore(last'.catNo))
       => /\ last'.why = "MissingTarget"
          /\ UNCHANGED <<storeVars, finalVars>>
          /\ stream' = "open"]_vars

\* C5 witness: a Modify record was rejected for its missing target while
\* the store holds entries, and the stream is still open
C5_Witness ==
    /\ last.op = "record"
    /\ last.disp = "Modify"
    /\ last.why = "MissingTarget"
    /\ Len(unsortedStars) > 0
    /\ stream = "open"

\* C6: a successful textual Replace record whose number is the number of no
\* entry adds exactly one new entry, with the given or resolved number or
\* else with the next auto-assigned number; when the number is the number
\* of an entry, the entry count and the numbers are unchanged.
C6_Replace ==
    [][(/\ RecordStep
        /\ last'.disp = "Replace"
        /\ last'.why = "")
       => IF InStore(last'.catNo)
          THEN /\ nStars' = nStars
               /\ Numbers(unsortedStars') = Numbers(unsortedStars)
          ELSE /\ nStars' = nStars + 1
               /\ Numbers(unsortedStars') =
                      Append(Numbers(unsortedStars), last'.catNo)
               /\ nextAutoCatalogNumber' # nextAutoCatalogNumber
                      => last'.catNo = nextAutoCatalogNumber]_vars

\* the pair the pending list holds for a record
Pair(catNo, barycenterCatNo) ==
    [catNo |-> catNo, barycenterCatNo |-> barycenterCatNo]

\* the record has an orbit and an OrbitBarycenter that is the number of no
\* entry of the store when the record is read
ForwardReference ==
    /\ RecordStep
    /\ last'.orbit
    /\ last'.bary # NoVal
    /\ ~InStore(last'.bary)

Unresolved(barycenterCatNo) ==
    \/ barycenterCatNo = InvalidIndex
    \/ /\ barycenterCatNo # NoVal
       /\ FindWhileLoading(barycenterCatNo) = 0

\* C8 (as stated): when the OrbitBarycenter of a textual record does not
\* resolve to an existing entry at merge time, the record is rejected and
\* no entry is added to the store.
C8_UnresolvedBarycenterRejected ==
    [][(RecordStep /\ Unresolved(last'.bary))
       => /\ last'.why # ""
          /\ nStars' = nStars
          /\ Numbers(unsortedStars') = Numbers(unsortedStars)]_vars

\* C8 (amended): when the OrbitBarycenter of a textual record that defines
\* an orbit does not resolve to an existing entry at merge time, the record
\* is rejected and no entry is added to the store: the entry count, the
\* numbers of the entries, the textual load-time index and the name index
\* are unchanged.
C8_UnresolvedBarycenterOfOrbitRejected ==
    [][(RecordStep /\ last'.orbit /\ Unresolved(last'.bary))
       => /\ last'.why # ""
          /\ nStars' = nStars
          /\ Numbers(unsortedStars') = Numbers(unsortedStars)
          /\ UNCHANGED <<stcFileCatalogNumberIndex, namesDB>>]_vars

\* C8 witness: a record for a number that no entry has was rejected for its
\* unresolved barycenter, while the store holds other entries
C8_Witness ==
    /\ last.op = "record"
    /\ last.why = "UnresolvedBarycenter"
    /\ last.bary # NoVal
    /\ ~InStore(last.catNo)
    /\ Len(unsortedStars) > 0

\* C9: the asserts of finish() hold for every pending pair (both entries
\* are found), and the pending list is empty after finish().
C9_PendingPairsResolve ==
    /\ ~assertFailed
    /\ phase = "finished" => barycenters = <<>>

\* C10 (as stated): a per-record error never stops the stream; a record
\* step returns false from load exactly for the block-structure errors
\* (unrecognized object type, missing opening brace, non-map body).
C10_OnlyBlockErrorsAbort ==
    [][RecordStep =>
           /\ last'.why \in PerRecordErrors => stream' = "open"
           /\ stream' = "closed" <=> last'.why \in BlockErrors]_vars

\* C10 (amended): a per-record error never stops the stream; a record step
\* returns false from load exactly for the block-structure errors and for
\* an Add Barycenter record with neither a catalog number nor a name.
C10_BlockErrorsAndBadBarycenterAbort ==
    [][RecordStep =>
           /\ last'.why \in PerRecordErrors \cup {""} => stream' = "open"
           /\ stream' = "closed" <=>
                  last'.why \in BlockErrors \cup {"BadBarycenter"}
           /\ last'.why \in PerRecordErrors \cup BlockErrors
                               \cup {"BadBarycenter", ""}]_vars

\* C10 witness: the second or a later record of a stream was rejected for a
\* per-record error and the stream is still open
C10_Witness ==
    /\ last.op = "record"
    /\ last.why \in PerRecordErrors
    /\ nRecords >= 2
    /\ stream = "open"


\* the first n records of the stream are there and decode
Decodes(file) ==
    /\ Len(file.recs) >= file.counter
    /\ \A i \in 1..file.counter :
           GetStarDetails(file.recs[i].spectralType) # NoDetails

C12_FailedLoadBinaryChangesNothing ==
    [][(last'.op = "loadBinary" /\ last'.why # "")
       => /\ unsortedStars' = unsortedStars
          /\ nStars' = nStars]_vars


\* C13: a second loadCrossIndex that fails leaves the table of the catalog
\* as it was.
C13_FailedReloadKeepsTable ==
    [][(query'.op = "loadCrossIndex" /\ ~query'.ok)
       => crossIndexes' = crossIndexes]_vars

\* the first place of the table with the number, 0 if none
FirstWith(entries, number) ==
    LET hits == {i \in 1..Len(entries) : entries[i].catalogNumber = number}
    IN  IF hits = {} THEN 0 ELSE CHOOSE i \in hits : \A j \in hits : i <= j

\* the records of a sequence, each with the number of times it occurs
Occurrences(seq) ==
    [r \in CrossIndexRecords |-> Cardinality({i \in 1..Len(seq) : seq[i] = r})]

\* C14: after a successful loadCrossIndex the table holds the records of the
\* stream in non-decreasing order of their catalog number; a search in a
\* table returns the store number of the first entry of the table with the
\* number asked for, and InvalidIndex when there is none; a search for a
\* catalog that has no table, or that is out of range, returns InvalidIndex.
C14_SortedTableAndSearch ==
    [][/\ (query'.op = "loadCrossIndex" /\ query'.ok) =>
              LET xindex == crossIndexes'[query'.catalog] IN
              /\ xindex.loaded /\ ~xindex.freed
              /\ Occurrences(xindex.entries) = Occurrences(query'.file.recs)
              /\ \A i, j \in 1..Len(xindex.entries) :
                     i < j => xindex.entries[i].catalogNumber
                              <= xindex.entries[j].catalogNumber
       /\ (query'.op = "searchCrossIndex" /\ query'.catalog \notin Catalogs) =>
              query'.result = InvalidIndex
       /\ (query'.op = "searchCrossIndex" /\ query'.catalog \in Catalogs) =>
              LET xindex == crossIndexes[query'.catalog]
                  first == FirstWith(xindex.entries, query'.number)
              IN  /\ ~xindex.loaded => query'.result = InvalidIndex
                  /\ (xindex.loaded /\ ~xindex.freed) =>
                         query'.result =
                             IF first = 0 THEN InvalidIndex
                             ELSE xindex.entries[first].celCatalogNumber
      ]_vars

\* C14 witness: a search found the first of two entries that carry the
\* number asked for and differ in their store number
C14_Witness ==
    /\ query.op = "searchCrossIndex"
    /\ query.catalog \in Catalogs
    /\ LET xindex == crossIndexes[query.catalog] IN
       /\ xindex.loaded /\ ~xindex.freed
       /\ Len(xindex.entries) = 2
       /\ xindex.entries[1].catalogNumber = query.number
       /\ xindex.entries[2].catalogNumber = query.number
       /\ xindex.entries[1].celCatalogNumber # xindex.entries[2].celCatalogNumber
       /\ query.result = xindex.entries[1].celCatalogNumber


\* C15: every accepted three-part number, packed into the 32-bit catalog
\* number and decomposed by division, comes back as the same three parts;
\* distinct accepted three-part numbers pack to distinct catalog numbers;
\* a three-part number with part3 = 4 and part1 > 2907 is not accepted.
C15_TychoRoundTrip ==
    /\ query.op = "catalogNumberToString" =>
           /\ query.text = [catalog |-> "TYC", parts |-> query.parts]
           /\ \A other \in TychoNames :
                  (/\ other # query.parts
                   /\ ParseTychoCatalogNumber(other).ok)
                  => ParseTychoCatalogNumber(other).catalogNumber
                     # query.parsed.catalogNumber
    /\ (/\ query.op = "parseTychoCatalogNumber"
        /\ query.parts[3] = 4
        /\ query.parts[1] > 2907)
       => ~query.parsed.ok


\* the call of createStar that load makes for record r in this state:
\* whether it is made, the entry it works on and what it returns
CreateStarCall(r) ==
    LET sw == Disposition(r)
        made == /\ r.syntax = "ok"
                /\ ~sw.fatal
                /\ ~ModifyNonexistent(sw.star = 0, r.disp)
        star == IF sw.star = 0 THEN NewStar ELSE unsortedStars[sw.star]
    IN  [made |-> made, target |-> sw.star, before |-> star,
         catalogNumber |-> sw.catalogNumber,
         details |-> IF made
                     THEN CreateOrUpdateStarDetails(star, r.disp, sw.catalogNumber,
                                                    r, ~r.isStar, barycenters)
                     ELSE NoDetails]

\* the place in the provisional list, after the step, of the entry the
\* record was applied to
Applied(call) ==
    IF call.target = 0 THEN Len(unsortedStars') ELSE call.target

\* C16: where applyCustomStarDetails evaluates assert(!details->shared()),
\* the details of the entry are not shared, for every disposition and every
\* prior state of the entry; an entry to which a record with custom fields
\* was applied has details that are exclusively owned.
C16_CustomDetailsNeverShared ==
    [][query'.op = "record" =>
           LET r == query'.r
               call == CreateStarCall(r)
           IN  call.made =>
                   /\ ~call.details.shared
                   /\ (HasCustomDetails(r) /\ last'.why = "") =>
                          ~unsortedStars'[Applied(call)].details.shared]_vars

\* C16 witness: a Modify record with a texture was applied to an entry, whose
\* details are now its own
C16_Witness ==
    /\ query.op = "record"
    /\ query.r.disp = "Modify"
    /\ query.r.texture
    /\ last.why = ""
    /\ \E i \in 1..Len(unsortedStars) :
           /\ unsortedStars[i].index = query.r.num
           /\ unsortedStars[i].details.tex
           /\ ~unsortedStars[i].details.shared


\* the position of the entry that the OrbitBarycenter of r stands for, NoVal
\* when r has no orbit or the barycenter is not in the store
InheritedPosition(r) ==
    LET barycenterCatNo == IF r.orbit THEN BarycenterCatNo(r) ELSE NoVal
        barycenter == IF barycenterCatNo \in {NoVal, InvalidIndex} THEN 0
                      ELSE FindWhileLoading(barycenterCatNo)
    IN  IF barycenter = 0 THEN NoVal ELSE unsortedStars[barycenter].pos

\* C17 (as stated): the position of an entry to which a record with an
\* explicit Position was applied is that Position.
C17_ExplicitPositionFirst ==
    [][query'.op = "record" =>
           LET r == query'.r
               call == CreateStarCall(r)
           IN  (call.made /\ last'.why = "" /\ r.position # NoVal) =>
                   unsortedStars'[Applied(call)].pos = r.position]_vars

\* C17 (amended): the position of an entry to which a record was applied is
\* the position of the barycenter of its orbit when the record has an orbit
\* and an OrbitBarycenter that is in the store; otherwise the Position of
\* the record when it has one; otherwise the position that RA, Dec and
\* Distance give (for Modify, with the values of the entry for those the
\* record leaves out).
C17_BarycenterPositionFirst ==
    [][query'.op = "record" =>
           LET r == query'.r
               call == CreateStarCall(r)
               inherited == InheritedPosition(r)
           IN  (call.made /\ last'.why = "") =>
                   unsortedStars'[Applied(call)].pos =
                       IF inherited # NoVal THEN inherited
                       ELSE IF r.position # NoVal THEN r.position
                       ELSE IF r.ra \/ r.dec \/ r.dist # NoVal
                       THEN EquatorialToCelestialCart(
                                IF r.dist # NoVal THEN r.dist
                                ELSE call.before.pos)
                       ELSE call.before.pos]_vars

\* C17 witness: a record with an orbit, a barycenter in the store and a
\* Position was applied, and the entry is not at that Position
C17_Witness ==
    /\ query.op = "record"
    /\ query.r.orbit
    /\ query.r.position # NoVal
    /\ last.why = ""
    /\ \E i, j \in 1..Len(unsortedStars) :
           /\ unsortedStars[i].index = query.r.num
           /\ unsortedStars[j].index = query.r.baryNum
           /\ unsortedStars[i].pos = unsortedStars[j].pos
           /\ unsortedStars[i].pos # query.r.position


\* C18: a Modify record for a star that gives neither AbsMag nor AppMag
\* leaves the absolute magnitude of the star entry it is applied to
\* unchanged, whatever else it gives (so that applying it twice is as
\* applying it once).
C18_ModifyKeepsMagnitude ==
    [][query'.op = "record" =>
           LET r == query'.r
               call == CreateStarCall(r)
           IN  (/\ call.made
                /\ r.disp = "Modify"
                /\ r.isStar
                /\ call.before.details # GetBarycenterDetails
                /\ r.absMag = NoVal
                /\ r.appMag = NoVal) =>
                   unsortedStars'[call.target].mag = call.before.mag]_vars

\* the distance from the origin that createStar resolves for record r
ResolvedDistance(r) ==
    IF InheritedPosition(r) # NoVal THEN InheritedPosition(r)
    ELSE IF r.position # NoVal THEN r.position
    ELSE r.dist

\* C19: a new (Add or Replace) star record with AppMag and without AbsMag
\* that gets as far as the magnitude is rejected when the resolved distance
\* of the entry from the origin is below the limit (the origin, of the
\* places of the model), and then no entry is added and the magnitude of no
\* entry changes; otherwise it is applied and the absolute magnitude of the
\* entry is the one derived from AppMag and the distance (less the
\* Extinction the record gives).
C19_ProximityRejected ==
    [][query'.op = "record" =>
           LET r == query'.r
               call == CreateStarCall(r)
           IN  (/\ call.made
                /\ r.disp \in {"Add", "Replace"}
                /\ r.isStar
                /\ r.absMag = NoVal
                /\ r.appMag # NoVal
                /\ last'.why \in {"", "Proximity"}) =>
                   IF ResolvedDistance(r) < 1
                   THEN /\ last'.why = "Proximity"
                        /\ nStars' = nStars
                        /\ Len(unsortedStars') = Len(unsortedStars)
                        /\ \A i \in 1..Len(unsortedStars) :
                               unsortedStars'[i].mag = unsortedStars[i].mag
                   ELSE /\ last'.why = ""
                        /\ unsortedStars'[Applied(call)].pos = ResolvedDistance(r)
                        /\ unsortedStars'[Applied(call)].mag =
                               AppToAbsMag(r.appMag, ResolvedDistance(r))
                               - (IF r.extinction = NoVal THEN 0
                                  ELSE r.extinction)]_vars

\* C19 witness: an Add or Replace record with AppMag only, for a place at
\* the origin, was rejected for its proximity
C19_Witness ==
    /\ query.op = "record"
    /\ query.r.disp \in {"Add", "Replace"}
    /\ query.r.absMag = NoVal
    /\ query.r.appMag # NoVal
    /\ query.r.position = 0
    /\ last.why = "Proximity"

\* what a star record leaves out of the fields a new entry needs
Lacks(r) ==
    \/ r.spectral = NoName
    \/ (r.absMag = NoVal /\ r.appMag = NoVal)
    \/ /\ r.position = NoVal
       /\ InheritedPosition(r) = NoVal
       /\ (~r.ra \/ ~r.dec \/ r.dist = NoVal)

\* C20: a new (Add or Replace) star record that lacks the spectral type, or
\* both magnitudes, or (with no Position and no inherited barycenter
\* position) RA, Dec or Distance, is rejected and no entry is added for it;
\* a Modify record is never rejected for a missing field.
C20_MissingFieldSkipped ==
    [][query'.op = "record" =>
           LET r == query'.r
               call == CreateStarCall(r)
           IN  /\ (/\ call.made
                   /\ r.disp \in {"Add", "Replace"}
                   /\ r.isStar
                   /\ Lacks(r)) =>
                      /\ last'.why # ""
                      /\ nStars' = nStars
                      /\ Len(unsortedStars') = Len(unsortedStars)
               /\ r.disp = "Modify" => last'.why # "MissingField"]_vars

\* C20 witness: an Add or Replace record for a star without a spectral type
\* was rejected for the missing field, with an entry already in the store
C20_Witness ==
    /\ query.op = "record"
    /\ query.r.disp \in {"Add", "Replace"}
    /\ query.r.spectral = NoName
    /\ query.r.isStar
    /\ last.why = "MissingField"
    /\ nStars > 0

\* the catalog numbers of a list of entries, each with the number of
\* entries that carry it
Multiplicity(s) ==
    [n \in 0..InvalidIndex |-> Cardinality({i \in 1..Len(s) : s[i].index = n})]

\* C25: finish() carries every provisional entry into the final array once:
\* the array holds the catalog numbers of the provisional list with the
\* same multiplicity, it has nStars entries, as the index has, and after it
\* the provisional list, the load-time index of load and the pending
\* barycenter list are empty.
C25_FinishCarriesEveryEntry ==
    [][last'.op = "finish" =>
           /\ Multiplicity(stars') = Multiplicity(unsortedStars)
           /\ Len(stars') = Len(unsortedStars)
           /\ Len(stars') = nStars'
           /\ Len(catalogNumberIndex') = nStars'
           /\ unsortedStars' = <<>>
           /\ stcFileCatalogNumberIndex' = {}
           /\ barycenters' = <<>>]_vars

\* C25 witness: finish() ran on a store of two entries with different
\* catalog numbers
C25_Witness ==
    /\ phase = "finished"
    /\ last.op = "finish"
    /\ Len(stars) = 2
    /\ stars[1].index # stars[2].index

\* C26: a record with neither a catalog number nor a name creates no entry
\* and changes no entry, for every disposition and every object type.
C26_NamelessRecordChangesNothing ==
    [][(/\ query'.op = "record"
        /\ query'.r.num = InvalidIndex
        /\ query'.r.name = NoName) =>
           /\ unsortedStars' = unsortedStars
           /\ nStars' = nStars]_vars

\* C27: a record that is rejected for an error of its own leaves the entry
\* it targets as it was.
C27_RejectedRecordKeepsEntry ==
    [][query'.op = "record" =>
           LET call == CreateStarCall(query'.r) IN
           (/\ call.made
            /\ call.target # 0
            /\ last'.why \in {"BadSpectralType", "MissingField", "Proximity",
                              "UnresolvedBarycenter"}) =>
               unsortedStars'[call.target] = unsortedStars[call.target]]_vars

\* C28: a record that is rejected leaves the pending barycenter list as it
\* was, so that the list holds pairs of accepted records only.
C28_RejectedRecordLeavesNoPair ==
    [][(last'.op = "record" /\ last'.why # "") =>
           barycenters' = barycenters]_vars

\* C29: after finish(), an entry s is in the list of orbiting entries of an
\* entry b exactly when the barycenter of s is b, and it is there once.
C29_LinksConsistent ==
    phase = "finished" =>
        \A s, b \in 1..Len(stars) :
            LET places == {k \in 1..Len(stars[b].orbitingStars) :
                              stars[b].orbitingStars[k] = s}
            IN  /\ (places # {}) <=> (stars[s].orbitBarycenter = b)
                /\ Cardinality(places) <= 1

\* C30: after finish(), every entry linked to a barycenter has the position
\* of that barycenter.
C30_OrbitingEntryAtBarycenter ==
    phase = "finished" =>
        \A s \in 1..Len(stars) :
            stars[s].orbitBarycenter # 0 =>
                stars[s].pos = stars[stars[s].orbitBarycenter].pos

\* the first name of a list that is in the name index, as its catalog
\* number; InvalidIndex when none is
FirstIndexed(index, candidates) ==
    LET hits == {i \in 1..Len(candidates) :
                    \E p \in index : p[1] = candidates[i]}
    IN  IF hits = {} THEN InvalidIndex
        ELSE GetCatalogNumberByName(
                 index, candidates[CHOOSE i \in hits : \A j \in hits : i <= j])

\* C21: a Bayer name "<letter> <constellation>" without a digit resolves to
\* the first of these that is in the name index: the name as typed, the
\* canonical "<letter abbreviation> <constellation abbreviation>", that
\* with " A" appended, "<abbr>1 <con>", "<abbr>1 <con> A"; with a digit
\* after the letter the canonical form keeps the digit; when no candidate
\* is in the index the result is InvalidIndex.
C21_BayerNameResolution ==
    query.op = "findCatalogNumberByName" =>
        /\ query.name \in {<<"A", "l", "p", "h", "a", " ", "C", "e", "n">>,
                          <<"A", "L", "F", " ", "C", "e", "n">>,
                          <<"A", "l", "p", "h", "a", " ", "C", "e", "n", "t", "a", "u", "r", "i">>} =>
               query.result =
                   FirstIndexed(namesDB.index,
                       <<query.name,
                         <<"A", "L", "F", " ", "C", "e", "n">>,
                         <<"A", "L", "F", " ", "C", "e", "n", " ", "A">>,
                         <<"A", "L", "F", "1", " ", "C", "e", "n">>,
                         <<"A", "L", "F", "1", " ", "C", "e", "n", " ", "A">>>>)
        /\ query.name = <<"A", "l", "p", "h", "a", "2", " ", "C", "e", "n">> =>
               query.result =
                   FirstIndexed(namesDB.index,
                       <<query.name,
                         <<"A", "L", "F", "2", " ", "C", "e", "n">>,
                         <<"A", "L", "F", "2", " ", "C", "e", "n", " ", "A">>>>)
        /\ query.result \in 0..InvalidIndex

\* C21 witness: "Alpha Centauri" was resolved to the entry indexed under
\* "ALF1 Cen A", the last of the candidates, no other being in the index
C21_Witness ==
    /\ query.op = "findCatalogNumberByName"
    /\ query.name = <<"A", "l", "p", "h", "a", " ", "C", "e", "n", "t", "a", "u", "r", "i">>
    /\ namesDB.index = {<<<<"A", "L", "F", "1", " ", "C", "e", "n", " ", "A">>, 5>>,
                        <<<<"A", "L", "F", "2", " ", "C", "e", "n">>, 6>>}
    /\ query.result = 5

\* the calls that are queries
QueryOps ==
    {"find", "findByName", "crossIndex", "searchCrossIndex", "getStarName",
     "getStarNameList", "getCompletion", "findVisibleStars", "findCloseStars"}

Handled(result, i) == Cardinality({k \in 1..Len(result) : result[k] = i})

\* C23: findCloseStars invokes the handler exactly once for every finalized
\* entry whose distance from the center is at most the radius, entries
\* exactly at the radius included and whatever their magnitude, and never
\* for any other entry.
C23_CloseStarsWithinRadius ==
    query.op = "findCloseStars" =>
        \A i \in 1..Len(stars) :
            Handled(query.result, i) =
                IF Distance(stars[i].pos, query.position) <= query.radius
                THEN 1 ELSE 0

\* C23 witness: a proximity query handled a faint entry exactly at the
\* radius and a bright one inside it
C23_Witness ==
    /\ query.op = "findCloseStars"
    /\ query.radius > 0
    /\ \E i, j \in 1..Len(stars) :
          /\ Distance(stars[i].pos, query.position) = query.radius
          /\ stars[i].mag > RootAbsMag
          /\ Handled(query.result, i) = 1
          /\ Distance(stars[j].pos, query.position) < query.radius
          /\ stars[j].mag <= RootAbsMag
          /\ Handled(query.result, j) = 1

\* C24: findVisibleStars hands an entry inside the frustum to the handler
\* exactly once when the limiting magnitude is above the entry's apparent
\* magnitude at its distance, not at all when the limiting magnitude is
\* below it, and never hands over an entry that is outside the half-spaces
\* of the frustum; no entry is handed over twice.
C24_VisibleStars ==
    query.op = "findVisibleStars" =>
        \A i \in 1..Len(stars) :
            LET appMag == AbsToAppMag(stars[i].mag,
                                      Distance(stars[i].pos, query.position))
                inside == InFrustum(stars[i].pos, query.position,
                                    query.direction)
            IN  /\ Handled(query.result, i) <= 1
                /\ inside /\ query.limitingMag > appMag =>
                       Handled(query.result, i) = 1
                /\ query.limitingMag < appMag => Handled(query.result, i) = 0
                /\ ~inside => Handled(query.result, i) = 0

=============================================================================
